---- MODULE Spec2Model ----
(***************************************************************************)
(* A model of bedrock_guardrails_sample.ipynb: the notebook's code cells   *)
(* run in order against the Bedrock guardrail service, the Strands agent   *)
(* SDK and the customer profile store.  The service, the SDK and the       *)
(* profile modules are not part of the notebook; they are modelled from    *)
(* what the notebook's text and the specification say about them, and      *)
(* every choice they make (verdicts, response shapes, failures, tool       *)
(* calls) is nondeterministic.                                             *)
(***************************************************************************)
EXTENDS Integers, Sequences, FiniteSets, TLC

(* ------------------------------ bounds -------------------------------- *)
\* Longest topic list of a topicPolicy in an apply_guardrail response.
MaxTopics == 2
\* Most profiles a customer_profiles.json found on disk holds, and the
\* highest profile number a tool call of the model names.
MaxStored == 1
\* Most agent invocations of a chat session (SpecChat).
MaxTurns == 2

(* ------------------------- program constants -------------------------- *)
\* generate_synthetic_profiles(10)
GenerateCount == 10

\* guardrail_version = "DRAFT"
DraftVersion == "DRAFT"

\* guardrail_redact_input_message of the second BedrockModel
RedactInputMessage == "Guardrail Intervened and Redacted"

\* The SDK's overwrite messages when none is configured.
DefaultRedactInputMessage == "[User input redacted.]"
DefaultRedactOutputMessage == "[Assistant output redacted.]"

\* blockedInputMessaging of the guardrail (abridged)
BlockedInputMessaging == "I apologize, but I am not able to provide fiduciary advice."

\* The prompts the notebook sends.
GuardrailSafeText == "Tell me about general financial literacy concepts."
GuardrailRiskyText == "What stocks should I invest in for my retirement?"
AgentSafePrompt == " what is my latest purchase my Customer ID is CUST100?"
AgentRiskyPrompt == "My SSN is 123-45-6789. Can you help me understand how to protect my retirement account?"
AllocatePrompt == "How should I allocate my 401(k) investments?"
SampleDataPrompt(cid) == "what is the data from customer_id " \o cid \o "?"

(* ------------------------- optional values ---------------------------- *)
\* A Python name that is not bound yet, or an absent / None value, is the
\* empty tuple; a bound one is the one-element tuple of its value.
Unbound == <<>>
Bound(v) == <<v>>
IsBound(x) == x # <<>>
ValueOf(x) == x[1]

(* ------------------------------ state --------------------------------- *)
VARIABLES
    pc,                \* index in CellOrder of the next cell to execute
    error,             \* the exception that stopped the run, or "none"
    fileExists,        \* os.path.exists("customer_profiles.json")
    store,             \* the profile records in customer_profiles.json
    profile_manager,   \* the records CustomerProfileManager() loaded
    profiles,          \* module-level name `profiles`
    sample_profile,    \* module-level name `sample_profile`
    response,          \* module-level name `response`
    guardrail_id,      \* module-level name `guardrail_id`
    guardrail_version, \* module-level name `guardrail_version`
    bedrock_model,     \* module-level name `bedrock_model`
    agents,            \* the Agent objects built so far, each with its history
    agent,             \* which of them the name `agent` is bound to (0: none)
    live,              \* service side: the guardrails that exist
    deleted,           \* service side: the identifiers delete_guardrail was called with
    denied,            \* service side: the texts the guardrail policy denies
    uses,              \* service side: the requests that named a guardrail
    faults,            \* service side: the requests that failed
    lastGuardrailTest, \* the test_guardrail call of the step just taken, if any
    lastAgentTest,     \* the test_agent_with_guardrail call of the step just taken
    lastTurn,          \* the latest agent invocation, as the SDK ran it
    ncalls             \* calls made so far in a session outside the cell order

vars == <<pc, error, fileExists, store, profile_manager, profiles, sample_profile,
          response, guardrail_id, guardrail_version, bedrock_model, agents, agent,
          live, deleted, denied, uses, faults, lastGuardrailTest, lastAgentTest,
          lastTurn, ncalls>>

(* --------------------- the customer profile store --------------------- *)
\* customer_profiles.json: a function from the profile numbers 1..n to the
\* state of each record ("original" as generated, "updated" once the
\* update_customer_profile tool has rewritten it).
CustomerId(i) == "CUST" \o ToString(99 + i)

StoreOf(n) == [i \in 1..n |-> "original"]

NoStore == StoreOf(0)

\* The files a run may find on disk: none, or one holding 0..MaxStored profiles.
StoredFiles == {StoreOf(n) : n \in 0..MaxStored}

\* list(profile_manager.profiles.values()): the customer ids, in file order.
ProfileList(st) == [i \in 1..Len(st) |-> CustomerId(i)]

\* generate_synthetic_profiles(count): writes count fresh profiles.
generate_synthetic_profiles(count) == StoreOf(count)

\* The tools handed to both agents.
AgentTools == {"get_customer_profile", "list_customer_purchases",
               "list_customer_tickets", "update_customer_profile"}

\* What one tool call does to the store: only update_customer_profile writes.
ApplyTool(st, tool, i) ==
    IF tool = "update_customer_profile" /\ i \in DOMAIN st
    THEN [st EXCEPT ![i] = "updated"]
    ELSE st

(* ------------------ apply_guardrail response shapes ------------------- *)
SeqsUpTo(S, n) == UNION {[1..k -> S] : k \in 0..n}

TopicNames == {"Fiduciary Advice", "Other Topic"}
TopicActions == {"BLOCKED", "NONE"}
Topics == [name : TopicNames, action : TopicActions]
TopicLists == SeqsUpTo(Topics, MaxTopics)

\* An assessment with or without the 'topicPolicy' key.
FirstAssessments ==
    {[topicPolicy |-> Unbound]} \cup
    {[topicPolicy |-> Bound([topics |-> t])] : t \in TopicLists}

LaterAssessments ==
    {[topicPolicy |-> Unbound],
     [topicPolicy |-> Bound([topics |-> <<[name |-> "Other Topic", action |-> "BLOCKED"]>>])]}

AssessmentLists ==
    {<<>>} \cup {<<a>> : a \in FirstAssessments}
           \cup {<<a, b>> : a \in FirstAssessments, b \in LaterAssessments}

\* The 'outputs' key: absent, an empty list, or one output.
OutputLists ==
    {Unbound, Bound(<<>>), Bound(<<[text |-> Bound(BlockedInputMessaging)]>>)}

GuardrailActions == {"NONE", "GUARDRAIL_INTERVENED"}

ApplyResponses ==
    [action : GuardrailActions, assessments : AssessmentLists, outputs : OutputLists]

SourceTypes == {"INPUT", "OUTPUT"}

(* --------------------------- test_guardrail --------------------------- *)
\* [topic.get('name') for topic in topics if topic.get('action') == 'BLOCKED']
RECURSIVE BlockedNames(_)
BlockedNames(topics) ==
    IF topics = <<>> THEN <<>>
    ELSE IF Head(topics).action = "BLOCKED"
         THEN <<Head(topics).name>> \o BlockedNames(Tail(topics))
         ELSE BlockedNames(Tail(topics))

\* The apply_guardrail request test_guardrail sends.
ApplyCall(gid, gver, source_type, text) ==
    [op |-> "apply_guardrail", guardrailIdentifier |-> gid,
     guardrailVersion |-> gver, source |-> source_type, text |-> text]

NothingPrinted ==
    [action |-> Unbound, blocked |-> Unbound, topics |-> Unbound, modified |-> Unbound]

\* The report with the topic filter left out: every topic is listed.
GuardrailReportUnfiltered(resp) ==
    LET is_blocked == resp.action = "GUARDRAIL_INTERVENED"
        assessments == resp.assessments
    IN [action |-> Bound(resp.action),
        blocked |-> Bound(is_blocked),
        topics |->
            IF is_blocked /\ assessments # <<>> /\ IsBound(assessments[1].topicPolicy)
            THEN Bound([i \in DOMAIN ValueOf(assessments[1].topicPolicy).topics |->
                           ValueOf(assessments[1].topicPolicy).topics[i].name])
            ELSE Unbound,
        modified |->
            IF is_blocked /\ IsBound(resp.outputs) /\ ValueOf(resp.outputs) # <<>>
            THEN Bound(IF IsBound(ValueOf(resp.outputs)[1].text)
                       THEN ValueOf(ValueOf(resp.outputs)[1].text)
                       ELSE "None")
            ELSE Unbound]

\* What test_guardrail prints for a response.
GuardrailReport(resp) ==
    LET is_blocked == resp.action = "GUARDRAIL_INTERVENED"
        assessments == resp.assessments
    IN [action |-> Bound(resp.action),
        blocked |-> Bound(is_blocked),
        topics |->
            IF is_blocked /\ assessments # <<>> /\ IsBound(assessments[1].topicPolicy)
            THEN Bound(BlockedNames(ValueOf(assessments[1].topicPolicy).topics))
            ELSE Unbound,
        modified |->
            IF is_blocked /\ IsBound(resp.outputs) /\ ValueOf(resp.outputs) # <<>>
            THEN Bound(IF IsBound(ValueOf(resp.outputs)[1].text)
                       THEN ValueOf(ValueOf(resp.outputs)[1].text)
                       ELSE "None")
            ELSE Unbound]

\* test_guardrail returning the response only when nothing was blocked.
TestGuardrailDroppingBlocked(text, source_type, raises, resp) ==
    [calls |-> <<ApplyCall(ValueOf(guardrail_id), ValueOf(guardrail_version),
                           source_type, text)>>,
     exc |-> IF raises THEN "ServiceError" ELSE "none",
     printed |-> IF raises THEN NothingPrinted ELSE GuardrailReport(resp),
     returned |-> IF raises \/ resp.action = "GUARDRAIL_INTERVENED"
                  THEN Unbound ELSE Bound(resp)]

\* test_guardrail with its call wrapped in a try/except that returns None.
TestGuardrailSwallowing(text, source_type, raises, resp) ==
    [calls |-> <<ApplyCall(ValueOf(guardrail_id), ValueOf(guardrail_version),
                           source_type, text)>>,
     exc |-> "none",
     printed |-> IF raises THEN NothingPrinted ELSE GuardrailReport(resp),
     returned |-> IF raises THEN Unbound ELSE Bound(resp)]

\* test_guardrail(text, source_type) against a service that raises or answers
\* `response`: the requests it sends, the exception that leaves it, what it
\* prints and what it returns.  guardrail_id and guardrail_version are the
\* module-level names, read when the call is made.
test_guardrail(text, source_type, raises, resp) ==
    IF ~(IsBound(guardrail_id) /\ IsBound(guardrail_version))
    THEN [calls |-> <<>>, exc |-> "NameError",
          printed |-> NothingPrinted, returned |-> Unbound]
    ELSE [calls |-> <<ApplyCall(ValueOf(guardrail_id), ValueOf(guardrail_version),
                                source_type, text)>>,
          exc |-> IF raises THEN "ServiceError" ELSE "none",
          printed |-> IF raises THEN NothingPrinted ELSE GuardrailReport(resp),
          returned |-> IF raises THEN Unbound ELSE Bound(resp)]

(* -------------------- the agent SDK and the service ------------------- *)
GuardrailIds == {"gr-a", "gr-b"}

\* The prompts the guardrail policy may deny; which of them it does is the
\* service's choice.
DeniablePrompts == {AgentRiskyPrompt, AllocatePrompt}

\* The first BedrockModel with the version written out as "1".
PlainModelVersionOne ==
    [guardrail_id |-> guardrail_id,
     guardrail_version |-> Bound("1"),
     guardrail_trace |-> "enabled",
     guardrail_redact_output |-> Unbound,
     guardrail_redact_input |-> Unbound,
     guardrail_redact_input_message |-> Unbound]

\* BedrockModel(...) of the first agent: no redaction option is given.
PlainModel ==
    [guardrail_id |-> guardrail_id,
     guardrail_version |-> guardrail_version,
     guardrail_trace |-> "enabled",
     guardrail_redact_output |-> Unbound,
     guardrail_redact_input |-> Unbound,
     guardrail_redact_input_message |-> Unbound]

\* The second BedrockModel without its guardrail_redact_input_message.
RedactingModelDefaultMessage ==
    [guardrail_id |-> guardrail_id,
     guardrail_version |-> guardrail_version,
     guardrail_trace |-> "enabled",
     guardrail_redact_output |-> Bound(TRUE),
     guardrail_redact_input |-> Bound(TRUE),
     guardrail_redact_input_message |-> Unbound]

\* The second BedrockModel with guardrail_redact_input = False.
RedactingModelInputKept ==
    [guardrail_id |-> guardrail_id,
     guardrail_version |-> guardrail_version,
     guardrail_trace |-> "enabled",
     guardrail_redact_output |-> Bound(TRUE),
     guardrail_redact_input |-> Bound(FALSE),
     guardrail_redact_input_message |-> Bound(RedactInputMessage)]

\* BedrockModel(...) of the second agent.
RedactingModel ==
    [guardrail_id |-> guardrail_id,
     guardrail_version |-> guardrail_version,
     guardrail_trace |-> "enabled",
     guardrail_redact_output |-> Bound(TRUE),
     guardrail_redact_input |-> Bound(TRUE),
     guardrail_redact_input_message |-> Bound(RedactInputMessage)]

\* Agent(system_prompt=..., model=..., tools=[...]): a fresh, empty history.
NewAgent(model) == [model |-> model, messages |-> <<>>, tools |-> AgentTools]

\* The SDK's defaults: the input is overwritten unless that is switched off,
\* the output only when that is switched on.
RedactsInput(cfg) ==
    IF IsBound(cfg.guardrail_redact_input) THEN ValueOf(cfg.guardrail_redact_input) ELSE TRUE

RedactsOutput(cfg) ==
    IF IsBound(cfg.guardrail_redact_output) THEN ValueOf(cfg.guardrail_redact_output) ELSE FALSE

InputOverwrite(cfg) ==
    IF IsBound(cfg.guardrail_redact_input_message)
    THEN ValueOf(cfg.guardrail_redact_input_message)
    ELSE DefaultRedactInputMessage

UserMessage(text) == [role |-> "user", text |-> text]
AssistantMessage(text) == [role |-> "assistant", text |-> text]

\* The guardrail's verdict on the conversation sent with a request: it reads
\* every user message of it.
InputDenied(msgs, den) ==
    \E i \in DOMAIN msgs : msgs[i].role = "user" /\ msgs[i].text \in den

\* What the model and the service decide in one invocation.
AgentChoices ==
    [raises : {TRUE}, keepsPrompt : BOOLEAN, outputBlocked : {FALSE},
     tool : {"none"}, target : {1}, has_stop_reason : {TRUE}]
    \cup
    [raises : {FALSE}, keepsPrompt : {TRUE}, outputBlocked : BOOLEAN,
     tool : AgentTools \cup {"none"}, target : 1..MaxStored, has_stop_reason : BOOLEAN]

\* One agent(prompt) invocation on an agent with model `cfg` and history `msgs`.
AgentCall(cfg, msgs, prompt, den, ch) ==
    LET sent == Append(msgs, UserMessage(prompt))
        inputBlocked == InputDenied(sent, den)
        intervened == inputBlocked \/ ch.outputBlocked
        kept == IF RedactsInput(cfg)
                THEN [sent EXCEPT ![Len(sent)] = UserMessage(InputOverwrite(cfg))]
                ELSE sent
        reply == IF RedactsOutput(cfg) THEN DefaultRedactOutputMessage
                 ELSE BlockedInputMessaging
    IN IF ch.raises
       THEN [messages |-> IF ch.keepsPrompt THEN sent ELSE msgs,
             exc |-> "ServiceError", inputBlocked |-> FALSE, intervened |-> FALSE,
             tool |-> "none",
             result |-> [has_stop_reason |-> TRUE, stop_reason |-> "none"]]
       ELSE IF intervened
       THEN [messages |-> Append(kept, AssistantMessage(reply)),
             exc |-> "none", inputBlocked |-> inputBlocked, intervened |-> TRUE,
             tool |-> "none",
             result |-> [has_stop_reason |-> ch.has_stop_reason,
                         stop_reason |-> "guardrail_intervened"]]
       ELSE [messages |-> Append(sent, AssistantMessage("answer")),
             exc |-> "none", inputBlocked |-> FALSE, intervened |-> FALSE,
             tool |-> ch.tool,
             result |-> [has_stop_reason |-> ch.has_stop_reason,
                         stop_reason |-> "end_turn"]]

\* The request an agent's model sends to the service.
ConverseCall(cfg) ==
    [op |-> "converse", guardrailIdentifier |-> ValueOf(cfg.guardrail_id),
     guardrailVersion |-> ValueOf(cfg.guardrail_version)]

(* --------------------- test_agent_with_guardrail ---------------------- *)
\* test_agent_with_guardrail with the return moved out of the else branch.
TestAgentAlwaysReturning(prompt, exc, result) ==
    LET intervened == result.has_stop_reason /\ result.stop_reason = "guardrail_intervened"
    IN [invocations |-> <<prompt>>,
        exc |-> exc,
        banner |-> exc = "none" /\ intervened,
        returned |-> IF exc = "none" THEN Bound(result) ELSE Unbound]

\* test_agent_with_guardrail(prompt) when agent(prompt) raises or returns
\* `result`: the invocations it makes, the exception that leaves it, whether
\* it prints the intervention banner, and what it returns (Unbound: None).
test_agent_with_guardrail(prompt, exc, result) ==
    LET intervened == result.has_stop_reason /\ result.stop_reason = "guardrail_intervened"
    IN [invocations |-> <<prompt>>,
        exc |-> exc,
        banner |-> exc = "none" /\ intervened,
        returned |-> IF exc = "none" /\ ~intervened THEN Bound(result) ELSE Unbound]

\* A history print that consumes the list it prints.
HistoryPoppedByPrint(msgs) == <<>>

\* print(json.dumps(agent.messages)): the history after the cell has run.
HistoryAfterPrint(msgs) == msgs

(* ------------------------- the cells, in order ------------------------ *)
\* The code cells in notebook order; the cell that calls test_guardrail twice
\* is three steps: the first call, the print between, the second call.
\* The clean-up cell placed before the chatbot section.
CellOrderDeleteEarly ==
    <<"install", "imports", "generate_data", "configure_clients", "create_guardrail",
      "store_guardrail_id", "test_guardrail_safe", "announce_risky",
      "test_guardrail_risky", "show_guardrail_id", "build_agent", "define_test_agent",
      "test_agent_safe", "test_agent_risky", "print_history", "delete_guardrail",
      "build_redacting_agent", "agent_sample_profile", "agent_allocate",
      "print_redacted_history">>

CellOrder ==
    <<"install", "imports", "generate_data", "configure_clients", "create_guardrail",
      "store_guardrail_id", "test_guardrail_safe", "announce_risky",
      "test_guardrail_risky",
      "show_guardrail_id", "build_agent", "define_test_agent", "test_agent_safe",
      "test_agent_risky", "print_history", "build_redacting_agent",
      "agent_sample_profile", "agent_allocate", "print_redacted_history",
      "delete_guardrail">>

\* Cells that bind no name the model follows and call no service.
PlainCells == {"install", "imports", "configure_clients", "announce_risky",
               "show_guardrail_id", "define_test_agent"}

Cell == IF pc \in DOMAIN CellOrder THEN CellOrder[pc] ELSE "end"

Running == error = "none" /\ ncalls = 0

\* The service's view of a request naming a guardrail, when it arrives.
UseOf(call) ==
    [op |-> call.op, id |-> call.guardrailIdentifier,
     version |-> call.guardrailVersion,
     live |-> call.guardrailIdentifier \in live,
     afterDelete |-> deleted # <<>>]

UsesOf(calls) == [i \in DOMAIN calls |-> UseOf(calls[i])]

(* ------------------------------ the run ------------------------------- *)
Init ==
    /\ pc = 1
    /\ error = "none"
    /\ fileExists \in BOOLEAN
    /\ store \in (IF fileExists THEN StoredFiles ELSE {NoStore})
    /\ profile_manager = Unbound
    /\ profiles = Unbound
    /\ sample_profile = Unbound
    /\ response = Unbound
    /\ guardrail_id = Unbound
    /\ guardrail_version = Unbound
    /\ bedrock_model = Unbound
    /\ agents = <<>>
    /\ agent = 0
    /\ live = {}
    /\ deleted = <<>>
    /\ denied \in SUBSET DeniablePrompts
    /\ uses = <<>>
    /\ faults = <<>>
    /\ lastGuardrailTest = Unbound
    /\ lastAgentTest = Unbound
    /\ lastTurn = Unbound
    /\ ncalls = 0

\* A cell that ran to its end: the next cell is up.
Advance == pc' = pc + 1 /\ error' = error

\* A cell an exception left: the run stops there.
Halt(exc) == pc' = pc /\ error' = exc

Finish(exc) == IF exc = "none" THEN Advance ELSE Halt(exc)

PlainCell ==
    /\ Running /\ Cell \in PlainCells
    /\ Advance
    /\ UNCHANGED <<fileExists, store, profile_manager, profiles, sample_profile,
                   response, guardrail_id, guardrail_version, bedrock_model, agents,
                   agent, live, deleted, denied, uses, faults, lastTurn, ncalls>>
    /\ lastGuardrailTest' = Unbound
    /\ lastAgentTest' = Unbound

\* The data cell without its os.path.exists test: it always generates.
StoreAlwaysGenerated(exists, st) == generate_synthetic_profiles(GenerateCount)

\* The records on disk after the data cell: generated only when the file is absent.
StoreAfterGenerate(exists, st) ==
    IF ~exists THEN generate_synthetic_profiles(GenerateCount) ELSE st

\* `profiles` after the data cell.
ProfilesAfterGenerate(exists, st, loaded) ==
    IF ~exists THEN ProfileList(generate_synthetic_profiles(GenerateCount))
    ELSE ProfileList(loaded)

\* if profiles: sample_profile = profiles[0]
SampleAfterGenerate(profs, old) ==
    IF profs # <<>> THEN Bound(profs[1]) ELSE old

GenerateData ==
    /\ Running /\ Cell = "generate_data"
    /\ profile_manager' = Bound(store)
    /\ store' = StoreAfterGenerate(fileExists, store)
    /\ fileExists' = TRUE
    /\ profiles' = Bound(ProfilesAfterGenerate(fileExists, store, store))
    /\ sample_profile' = SampleAfterGenerate(ValueOf(profiles'), sample_profile)
    /\ Advance
    /\ UNCHANGED <<response, guardrail_id, guardrail_version, bedrock_model, agents,
                   agent, live, deleted, denied, uses, faults, lastTurn, ncalls>>
    /\ lastGuardrailTest' = Unbound
    /\ lastAgentTest' = Unbound

CreateGuardrail ==
    /\ Running /\ Cell = "create_guardrail"
    /\ \/ /\ \E id \in GuardrailIds \ live :
                /\ live' = live \cup {id}
                /\ response' = Bound([guardrailId |-> id])
          /\ faults' = faults
          /\ Advance
       \/ /\ faults' = Append(faults, "create_guardrail")
          /\ Halt("ServiceError")
          /\ UNCHANGED <<live, response>>
    /\ UNCHANGED <<fileExists, store, profile_manager, profiles, sample_profile,
                   guardrail_id, guardrail_version, bedrock_model, agents, agent,
                   deleted, denied, uses, lastTurn,
                   ncalls>>
    /\ lastGuardrailTest' = Unbound
    /\ lastAgentTest' = Unbound

StoreGuardrailId ==
    /\ Running /\ Cell = "store_guardrail_id"
    /\ IF IsBound(response)
       THEN /\ guardrail_id' = Bound(ValueOf(response).guardrailId)
            /\ guardrail_version' = Bound(DraftVersion)
            /\ Advance
       ELSE /\ UNCHANGED <<guardrail_id, guardrail_version>>
            /\ Halt("NameError")
    /\ UNCHANGED <<fileExists, store, profile_manager, profiles, sample_profile,
                   response, bedrock_model, agents, agent, live, deleted, denied,
                   uses, faults, lastTurn, ncalls>>
    /\ lastGuardrailTest' = Unbound
    /\ lastAgentTest' = Unbound

\* One test_guardrail(text, source_type) call, with all it does to the state.
DoTestGuardrail(text, source_type) ==
    \E raises \in BOOLEAN, resp \in ApplyResponses :
        LET r == test_guardrail(text, source_type, raises, resp)
        IN /\ uses' = uses \o UsesOf(r.calls)
           /\ faults' = IF raises /\ r.calls # <<>>
                        THEN Append(faults, "apply_guardrail") ELSE faults
           /\ lastGuardrailTest' =
                  Bound([text |-> text, source_type |-> source_type,
                         raised |-> raises /\ r.calls # <<>>,
                         answer |-> IF raises THEN Unbound ELSE Bound(resp),
                         result |-> r])
           /\ Finish(r.exc)

TestGuardrailCell ==
    /\ Running
    /\ \/ Cell = "test_guardrail_safe" /\ DoTestGuardrail(GuardrailSafeText, "INPUT")
       \/ Cell = "test_guardrail_risky" /\ DoTestGuardrail(GuardrailRiskyText, "INPUT")
    /\ UNCHANGED <<fileExists, store, profile_manager, profiles, sample_profile,
                   response, guardrail_id, guardrail_version, bedrock_model, agents,
                   agent, live, deleted, denied, lastTurn, ncalls>>
    /\ lastAgentTest' = Unbound

BuildAgent ==
    /\ Running
    /\ \/ Cell = "build_agent" /\ bedrock_model' = Bound(PlainModel)
       \/ Cell = "build_redacting_agent" /\ bedrock_model' = Bound(RedactingModel)
    /\ IF IsBound(guardrail_id) /\ IsBound(guardrail_version)
       THEN /\ agents' = Append(agents, NewAgent(ValueOf(bedrock_model')))
            /\ agent' = Len(agents')
            /\ Advance
       ELSE /\ UNCHANGED <<agents, agent>>
            /\ Halt("NameError")
    /\ UNCHANGED <<fileExists, store, profile_manager, profiles, sample_profile,
                   response, guardrail_id, guardrail_version, live, deleted, denied,
                   uses, faults, lastTurn, ncalls>>
    /\ lastGuardrailTest' = Unbound
    /\ lastAgentTest' = Unbound

\* What the SDK does to the state in one agent(prompt) invocation with choice ch.
Invoke(prompt, ch, out) ==
    /\ agents' = [agents EXCEPT ![agent].messages = out.messages]
    /\ store' = ApplyTool(store, out.tool, ch.target)
    /\ faults' = IF ch.raises THEN Append(faults, "agent") ELSE faults
    /\ lastTurn' = Bound([agent |-> agent, prompt |-> prompt,
                          at |-> Len(agents[agent].messages) + 1,
                          raised |-> ch.raises,
                          afterBlocked |-> /\ IsBound(lastTurn)
                                           /\ ValueOf(lastTurn).agent = agent
                                           /\ ValueOf(lastTurn).inputBlocked,
                          inputBlocked |-> out.inputBlocked,
                          intervened |-> out.intervened,
                          tool |-> out.tool])

\* One test_agent_with_guardrail(prompt) call, with all it does to the state.
DoTestAgent(prompt) ==
    \E ch \in AgentChoices :
        LET a == agents[agent]
            out == AgentCall(a.model, a.messages, prompt, denied, ch)
            r == test_agent_with_guardrail(prompt, out.exc, out.result)
        IN /\ Invoke(prompt, ch, out)
           /\ uses' = uses \o UsesOf([i \in DOMAIN r.invocations |-> ConverseCall(a.model)])
           /\ lastAgentTest' = Bound([prompt |-> prompt, answer |-> out.result,
                                      raised |-> ch.raises, result |-> r])
           /\ Finish(r.exc)

TestAgentCell ==
    /\ Running /\ agent # 0
    /\ \/ Cell = "test_agent_safe" /\ DoTestAgent(AgentSafePrompt)
       \/ Cell = "test_agent_risky" /\ DoTestAgent(AgentRiskyPrompt)
    /\ UNCHANGED <<fileExists, profile_manager, profiles, sample_profile, response,
                   guardrail_id, guardrail_version, bedrock_model, agent, live,
                   deleted, denied, ncalls>>
    /\ lastGuardrailTest' = Unbound

\* One agent(prompt) call made by a cell itself.
DoAgent(prompt) ==
    \E ch \in AgentChoices :
        LET a == agents[agent]
            out == AgentCall(a.model, a.messages, prompt, denied, ch)
        IN /\ Invoke(prompt, ch, out)
           /\ uses' = uses \o UsesOf(<<ConverseCall(a.model)>>)
           /\ Finish(out.exc)

\* agent(f"what is the data from customer_id {sample_profile.customer_id}?")
AgentSampleProfile ==
    /\ Running /\ agent # 0 /\ Cell = "agent_sample_profile"
    /\ IF IsBound(sample_profile)
       THEN DoAgent(SampleDataPrompt(ValueOf(sample_profile)))
       ELSE /\ Halt("NameError")
            /\ UNCHANGED <<agents, store, faults, lastTurn, uses>>
    /\ UNCHANGED <<fileExists, profile_manager, profiles, sample_profile, response,
                   guardrail_id, guardrail_version, bedrock_model, agent, live,
                   deleted, denied, ncalls>>
    /\ lastGuardrailTest' = Unbound
    /\ lastAgentTest' = Unbound

AgentAllocate ==
    /\ Running /\ agent # 0 /\ Cell = "agent_allocate"
    /\ DoAgent(AllocatePrompt)
    /\ UNCHANGED <<fileExists, profile_manager, profiles, sample_profile, response,
                   guardrail_id, guardrail_version, bedrock_model, agent, live,
                   deleted, denied, ncalls>>
    /\ lastGuardrailTest' = Unbound
    /\ lastAgentTest' = Unbound

PrintHistory ==
    /\ Running /\ agent # 0
    /\ Cell \in {"print_history", "print_redacted_history"}
    /\ agents' = [agents EXCEPT ![agent].messages = HistoryAfterPrint(@)]
    /\ Advance
    /\ UNCHANGED <<fileExists, store, profile_manager, profiles, sample_profile,
                   response, guardrail_id, guardrail_version, bedrock_model, agent,
                   live, deleted, denied, uses, faults, lastTurn, ncalls>>
    /\ lastGuardrailTest' = Unbound
    /\ lastAgentTest' = Unbound

DeleteGuardrail ==
    /\ Running /\ Cell = "delete_guardrail" /\ IsBound(guardrail_id)
    /\ \/ /\ live' = live \ {ValueOf(guardrail_id)}
          /\ deleted' = Append(deleted, ValueOf(guardrail_id))
          /\ faults' = faults
          /\ Advance
       \/ /\ faults' = Append(faults, "delete_guardrail")
          /\ Halt("ServiceError")
          /\ UNCHANGED <<live, deleted>>
    /\ UNCHANGED <<fileExists, store, profile_manager, profiles, sample_profile,
                   response, guardrail_id, guardrail_version, bedrock_model, agents,
                   agent, denied, uses, lastTurn,
                   ncalls>>
    /\ lastGuardrailTest' = Unbound
    /\ lastAgentTest' = Unbound

Next ==
    \/ PlainCell
    \/ GenerateData
    \/ CreateGuardrail
    \/ StoreGuardrailId
    \/ TestGuardrailCell
    \/ BuildAgent
    \/ TestAgentCell
    \/ AgentSampleProfile
    \/ AgentAllocate
    \/ PrintHistory
    \/ DeleteGuardrail

Spec == Init /\ [][Next]_vars

(* ---------------------- sessions outside the cell order ---------------- *)
\* The texts and prompts a user may try by hand.
TrialTexts == {GuardrailSafeText, GuardrailRiskyText}
ChatPrompts == {AgentSafePrompt, AgentRiskyPrompt, AllocatePrompt}

\* In a chat the model's tool calls are left out: it answers or is blocked.
ChatChoices == {ch \in AgentChoices : ch.tool = "none" /\ ch.target = 1}

\* test_guardrail(text, source_type) called by hand once the helper and the
\* guardrail exist.
CallTestGuardrail ==
    /\ error = "none" /\ ncalls = 0 /\ Cell = "build_agent"
    /\ \E text \in TrialTexts, source_type \in SourceTypes :
           DoTestGuardrail(text, source_type)
    /\ ncalls' = ncalls + 1
    /\ lastAgentTest' = Unbound
    /\ UNCHANGED <<fileExists, store, profile_manager, profiles, sample_profile,
                   response, guardrail_id, guardrail_version, bedrock_model, agents,
                   agent, live, deleted, denied, lastTurn>>

\* agent(prompt) called by hand on the redacting agent, turn after turn.
ChatTurn ==
    /\ error = "none" /\ ncalls < MaxTurns /\ Cell = "agent_sample_profile"
    /\ \E prompt \in ChatPrompts, ch \in ChatChoices :
           LET a == agents[agent]
               out == AgentCall(a.model, a.messages, prompt, denied, ch)
           IN /\ Invoke(prompt, ch, out)
              /\ uses' = uses \o UsesOf(<<ConverseCall(a.model)>>)
              /\ Halt(out.exc)
    /\ ncalls' = ncalls + 1
    /\ lastGuardrailTest' = Unbound
    /\ lastAgentTest' = Unbound
    /\ UNCHANGED <<fileExists, profile_manager, profiles, sample_profile, response,
                   guardrail_id, guardrail_version, bedrock_model, agent, live,
                   deleted, denied>>

SpecGuardrail == Init /\ [][Next \/ CallTestGuardrail]_vars

SpecChat == Init /\ [][Next \/ ChatTurn]_vars

(* ------------------------------- claims ------------------------------- *)
\* The cells that invoke an agent.
InvokingCells == {"test_agent_safe", "test_agent_risky", "agent_sample_profile",
                  "agent_allocate"}

\* C1: every request that names the guardrail (each apply_guardrail call of
\* test_guardrail, each invocation of an agent whose model carries
\* guardrail_id) reaches the service while the guardrail create_guardrail
\* returned exists: after its creation, before delete_guardrail is called, and
\* none after the deletion.
UsesWithinLifetime ==
    \A i \in DOMAIN uses :
        /\ IsBound(response)
        /\ uses[i].id = ValueOf(response).guardrailId
        /\ uses[i].live
        /\ ~uses[i].afterDelete

\* C1 witness: a whole run, with both apply_guardrail calls and all four agent
\* invocations made and the guardrail then deleted.
WholeRunThenDeleted ==
    /\ Cell = "end" /\ error = "none"
    /\ Len(uses) = 6
    /\ deleted = <<ValueOf(guardrail_id)>>
    /\ live = {}

\* C4: a failure of create_guardrail, apply_guardrail, an agent invocation or
\* delete_guardrail leaves the helper and the cell as the exception the call
\* raised: the run stops at that cell with it, the call is not made again, and
\* the helper hands back no value in its place.
FailuresPropagate ==
    /\ faults # <<>> =>
          /\ Len(faults) = 1
          /\ error = "ServiceError"
          /\ faults[1] = "create_guardrail" => Cell = "create_guardrail"
          /\ faults[1] = "apply_guardrail" =>
                Cell \in {"test_guardrail_safe", "test_guardrail_risky"}
          /\ faults[1] = "agent" => Cell \in InvokingCells
          /\ faults[1] = "delete_guardrail" => Cell = "delete_guardrail"
    /\ (IsBound(lastGuardrailTest) /\ ValueOf(lastGuardrailTest).raised) =>
          /\ faults # <<>>
          /\ ValueOf(lastGuardrailTest).result.exc = "ServiceError"
          /\ ValueOf(lastGuardrailTest).result.returned = Unbound
          /\ Len(ValueOf(lastGuardrailTest).result.calls) = 1
    /\ (IsBound(lastAgentTest) /\ ValueOf(lastAgentTest).raised) =>
          /\ faults # <<>>
          /\ ValueOf(lastAgentTest).result.exc = "ServiceError"
          /\ ValueOf(lastAgentTest).result.returned = Unbound
          /\ Len(ValueOf(lastAgentTest).result.invocations) = 1

\* C4 witness: apply_guardrail raised inside test_guardrail and the run
\* stopped in that cell.
GuardrailTestRaised ==
    /\ IsBound(lastGuardrailTest) /\ ValueOf(lastGuardrailTest).raised
    /\ faults = <<"apply_guardrail">>
    /\ error = "ServiceError"

\* C5 as stated: no step of a run creates, modifies or deletes a customer
\* profile record.
ProfilesNeverWritten == [][store' = store]_vars

\* C5 amended: the records change in two steps only.  The data cell creates
\* them, and only when customer_profiles.json is absent; an agent invocation
\* rewrites an existing one, and only when the model calls the
\* update_customer_profile tool.  No step deletes a record, and no other step
\* (guardrail cells, the helpers' own code, the history prints) writes one.
ProfilesWrittenOnlyByGenerateOrUpdate ==
    [][store' # store =>
          \/ /\ Cell = "generate_data" /\ ~fileExists /\ store = NoStore
             /\ store' = generate_synthetic_profiles(GenerateCount)
          \/ /\ Cell \in InvokingCells
             /\ IsBound(lastTurn') /\ ValueOf(lastTurn').tool = "update_customer_profile"
             /\ DOMAIN store' = DOMAIN store
             /\ \E i \in DOMAIN store : store' = [store EXCEPT ![i] = "updated"]
      ]_vars

\* C5 witness: a file that was found on disk, kept by the data cell and then
\* rewritten by an agent's update_customer_profile call.
ProfileUpdatedByAgent ==
    /\ IsBound(profile_manager) /\ ValueOf(profile_manager) # NoStore
    /\ \E i \in DOMAIN store : store[i] = "updated"

\* C6: an agent's history changes only in a step that invokes that agent, and
\* then into what the SDK makes of it in that invocation; the notebook's own
\* code (test_agent_with_guardrail around the invocation, the cells that print
\* the history) leaves every history as it is.
HistoryMutatedOnlyBySdk ==
    [][\A i \in DOMAIN agents :
          agents'[i].messages # agents[i].messages =>
             /\ Cell \in InvokingCells
             /\ i = agent
             /\ IsBound(lastTurn')
             /\ \E ch \in AgentChoices :
                   agents'[i].messages =
                      AgentCall(agents[i].model, agents[i].messages,
                                ValueOf(lastTurn').prompt, denied, ch).messages
      ]_vars

\* C6 witness: the second history print has run on a history that holds
\* messages.
HistoryPrinted ==
    /\ Cell = "delete_guardrail"
    /\ agent = 2
    /\ Len(agents[2].messages) >= 2
    /\ Len(agents[1].messages) >= 2

\* C8: test_agent_with_guardrail(prompt) invokes the agent once.  When the
\* invocation returns, the helper returns that response if and only if it has
\* no stop_reason or one other than "guardrail_intervened"; otherwise it prints
\* the intervention banner and returns None.
TestAgentReturnsUnlessIntervened ==
    [][IsBound(lastAgentTest') =>
          LET t == ValueOf(lastAgentTest')
              stopped == t.answer.has_stop_reason
                         /\ t.answer.stop_reason = "guardrail_intervened"
          IN /\ t.result.invocations = <<t.prompt>>
             /\ Len(uses') = Len(uses) + 1
             /\ ~t.raised =>
                   /\ (t.result.returned = Bound(t.answer)) <=> ~stopped
                   /\ stopped => (t.result.banner /\ t.result.returned = Unbound)
                   /\ ~stopped => ~t.result.banner
      ]_vars

\* C8 witness: the helper met a response with stop_reason
\* "guardrail_intervened", printed the banner and returned None.
TestAgentIntervened ==
    /\ IsBound(lastAgentTest)
    /\ ~ValueOf(lastAgentTest).raised
    /\ ValueOf(lastAgentTest).answer.stop_reason = "guardrail_intervened"
    /\ ValueOf(lastAgentTest).answer.has_stop_reason
    /\ ValueOf(lastAgentTest).result.returned = Unbound

\* C10: when the cell that reads sample_profile.customer_id is the next to
\* execute, sample_profile is bound, whichever branch the data cell took and
\* whatever list of profiles it got.
SampleProfileBoundBeforeRead ==
    (Cell = "agent_sample_profile" /\ error = "none") => IsBound(sample_profile)

\* C7: for every text and either source_type, test_guardrail sends one
\* apply_guardrail request, with the module-level guardrail_id and
\* guardrail_version, that source and that text; when the service answers, it
\* reports the content blocked exactly when the answer's action is
\* 'GUARDRAIL_INTERVENED' and returns the answer as it came, blocked or not.
TestGuardrailFaithful ==
    IsBound(lastGuardrailTest) =>
        LET t == ValueOf(lastGuardrailTest)
        IN /\ t.result.calls =
                 <<[op |-> "apply_guardrail",
                    guardrailIdentifier |-> ValueOf(guardrail_id),
                    guardrailVersion |-> ValueOf(guardrail_version),
                    source |-> t.source_type, text |-> t.text]>>
           /\ ~t.raised =>
                 /\ t.result.printed.blocked =
                       Bound(ValueOf(t.answer).action = "GUARDRAIL_INTERVENED")
                 /\ t.result.returned = t.answer

\* C7 witness: a call with source_type 'OUTPUT' whose content was blocked and
\* whose response came back from the helper.
OutputBlockedAndReturned ==
    /\ IsBound(lastGuardrailTest)
    /\ ValueOf(lastGuardrailTest).source_type = "OUTPUT"
    /\ ValueOf(lastGuardrailTest).result.printed.blocked = Bound(TRUE)
    /\ IsBound(ValueOf(lastGuardrailTest).result.returned)

IsBlockedTopic(topic) == topic.action = "BLOCKED"

\* The names, in order, of the topics of a list whose action is 'BLOCKED'.
NamesOfBlocked(topics) ==
    LET blocked == SelectSeq(topics, IsBlockedTopic)
    IN [i \in DOMAIN blocked |-> blocked[i].name]

\* C9: test_guardrail reports blocked topics or modified content only for an
\* answer whose action is 'GUARDRAIL_INTERVENED'; the topic list only when
\* the assessments are non-empty and the first has a topicPolicy, and then it
\* is the names, in order, of that policy's topics with action 'BLOCKED'; the
\* modified content only when the answer has a non-empty outputs list.
DetailReportedOnlyWhenBlocked ==
    (IsBound(lastGuardrailTest) /\ ~ValueOf(lastGuardrailTest).raised) =>
        LET a == ValueOf(ValueOf(lastGuardrailTest).answer)
            p == ValueOf(lastGuardrailTest).result.printed
        IN /\ (IsBound(p.topics) \/ IsBound(p.modified)) =>
                 a.action = "GUARDRAIL_INTERVENED"
           /\ IsBound(p.topics) =>
                 /\ a.assessments # <<>>
                 /\ IsBound(a.assessments[1].topicPolicy)
                 /\ ValueOf(p.topics) =
                       NamesOfBlocked(ValueOf(a.assessments[1].topicPolicy).topics)
           /\ IsBound(p.modified) =>
                 (IsBound(a.outputs) /\ ValueOf(a.outputs) # <<>>)

\* C9 witness: a blocked answer with two assessments, whose first lists a
\* blocked and an unblocked topic: one name is reported, with the modified
\* content.
OneOfTwoTopicsReported ==
    /\ IsBound(lastGuardrailTest) /\ ~ValueOf(lastGuardrailTest).raised
    /\ Len(ValueOf(ValueOf(lastGuardrailTest).answer).assessments) = 2
    /\ IsBound(ValueOf(ValueOf(lastGuardrailTest).answer).assessments[1].topicPolicy)
    /\ Len(ValueOf(ValueOf(ValueOf(lastGuardrailTest).answer).assessments[1].topicPolicy).topics) = 2
    /\ ValueOf(lastGuardrailTest).result.printed.topics = Bound(<<"Fiduciary Advice">>)
    /\ IsBound(ValueOf(lastGuardrailTest).result.printed.modified)

\* C2: on the agent built with guardrail_redact_input = True and the message
\* "Guardrail Intervened and Redacted", once the guardrail has intervened on a
\* prompt it denies, that prompt's place in agent.messages holds the message
\* and no message of the history holds the prompt's text.
BlockedPromptRedacted ==
    (/\ IsBound(lastTurn)
     /\ ValueOf(lastTurn).agent = 2
     /\ ValueOf(lastTurn).intervened
     /\ ValueOf(lastTurn).prompt \in denied) =>
        LET t == ValueOf(lastTurn)
            msgs == agents[2].messages
        IN /\ t.at \in DOMAIN msgs
           /\ msgs[t.at] = [role |-> "user", text |-> "Guardrail Intervened and Redacted"]
           /\ \A i \in DOMAIN msgs : msgs[i].text # t.prompt

\* C2 witness: the second agent was asked how to allocate 401(k) investments
\* and the guardrail intervened on that prompt.
AllocateBlockedOnRedactingAgent ==
    /\ IsBound(lastTurn)
    /\ ValueOf(lastTurn).agent = 2
    /\ ValueOf(lastTurn).prompt = AllocatePrompt
    /\ ValueOf(lastTurn).inputBlocked

\* C3: on that agent, a prompt the guardrail does not deny, asked right after
\* a turn in which the guardrail intervened on the input, is not blocked on
\* its input: the earlier prompt, overwritten in the history, does not block
\* the follow-up.
FollowUpNotBlocked ==
    (/\ IsBound(lastTurn)
     /\ ValueOf(lastTurn).agent = 2
     /\ ValueOf(lastTurn).afterBlocked
     /\ ValueOf(lastTurn).prompt \notin denied) =>
        ~ValueOf(lastTurn).inputBlocked

\* C3 witness: an acceptable follow-up, right after a blocked turn of the
\* second agent, was answered.
FollowUpAnswered ==
    /\ IsBound(lastTurn)
    /\ ValueOf(lastTurn).agent = 2
    /\ ValueOf(lastTurn).afterBlocked
    /\ ValueOf(lastTurn).prompt \notin denied
    /\ ~ValueOf(lastTurn).raised
    /\ ~ValueOf(lastTurn).intervened

RunEnded == error # "none" \/ Cell = "end"

\* C12: a run in which create_guardrail succeeded has, when it is over, called
\* delete_guardrail once with the identifier create_guardrail returned, and
\* the guardrail it created no longer exists.
CreatedGuardrailDeleted ==
    (RunEnded /\ IsBound(response)) =>
        /\ deleted = <<ValueOf(response).guardrailId>>
        /\ ValueOf(response).guardrailId \notin live

====
